---- MODULE Spec2Model ----
\* Job orchestration layer of PaddleFlow: the job table (models/job.go) and the
\* job handlers CreateSingleJob / CreateJob / DeleteJob / StopJob.
\* Strings that are matched by pattern (job IDs) are sequences of characters;
\* all other strings are TLA+ strings.
EXTENDS Integers, Sequences, FiniteSets, TLC

\* ---------------------------------------------------------------- bounds
\* time.Now() is a strictly increasing clock; every call takes one tick and
\* no call starts after MaxTime.
MaxTime == 3

\* ------------------------------------------------------------- constants
StatusJobInit == "init"
StatusJobPending == "pending"
StatusJobRunning == "running"
StatusJobSucceeded == "succeeded"
StatusJobFailed == "failed"
StatusJobTerminated == "terminated"

JobStatuses ==
  {StatusJobInit, StatusJobPending, StatusJobRunning,
   StatusJobSucceeded, StatusJobFailed, StatusJobTerminated}

EnvJobLowPriority == "low"
EnvJobNormalPriority == "normal"
EnvJobHighPriority == "high"

\* schema.IsImmutableJobStatus
IsImmutableJobStatus(status) ==
  status \in {StatusJobSucceeded, StatusJobFailed, StatusJobTerminated}

\* ---------------------------------------------------------------- errors
\* an error value: its kind, the string it carries and the job ID it carries
Err(kind, arg, id) == [kind |-> kind, arg |-> arg, id |-> id]
nil == Err("nil", "", <<>>)
JobIDNotFoundError(jobID) == Err("JobIDNotFound", "", jobID)
InvalidJobPriorityError(priority) == Err("InvalidJobPriority", priority, <<>>)
ErrRecordNotFound == Err("record not found", "", <<>>)

\* ctx.ErrorCode: the codes of package common the handlers set
JobNotFound == "JobNotFound"
InternalError == "InternalError"

\* ---------------------------------------------------------- input domains
ID1 == <<"j", "o", "b", "-", "r", "1", "-", "a">>
GenID == <<"j", "o", "b", "-", "u">>
EmptyID == <<>>

\* job IDs of run r1 and of run r2, and IDs that stop short of the form
\* job-<run>-<rest>
IDRun2 == <<"j", "o", "b", "-", "r", "2", "-", "a">>
IDBare == <<"j", "o", "b", "-", "r", "1">>
IDDash == <<"j", "o", "b", "-", "r", "1", "-">>

RequestIDs == {EmptyID, ID1}
ListIDs == {ID1, IDRun2, IDBare, IDDash}

\* run IDs: a stored run, a prefix of it, an unknown run, and run IDs that
\* contain the characters _ and %
RunIDs == {<<"r", "1">>, <<"r">>, <<"r", "3">>, <<"r", "_">>, <<"%">>}
LookupIDs == {ID1, GenID}
GeneratedIDs == {GenID}

Messages == {"", "m1"}
StatusInputs == JobStatuses \cup {""}
PriorityInputs == {"", EnvJobLowPriority, EnvJobNormalPriority, EnvJobHighPriority, "urgent"}
QueueInputs == {"q1", "q2", "q9"}
FlavourInputs == {"flavor.small", "flavor.none"}
ImageInputs == {"", "img"}
TemplateInputs == {"", "{\"a\":1}", "{a"}

\* values passed as info interface{}: nil, two marshalable maps, a channel
InfoNil == "nil"
InfoInputs == {InfoNil, "map[pod:p1]", "map[pod:p2]", "chan"}

\* the request handlers that run concurrently, and the clusters they ask a
\* runtime for
Callers == {"a", "b", "c"}
ClusterInputs == {"c1", "c9"}

\* ------------------------------------------------- queue/cluster directory
Queues ==
  {[ID |-> "q1", Name |-> "queue1", ClusterId |-> "c1", Namespace |-> "ns1"],
   [ID |-> "q2", Name |-> "queue2", ClusterId |-> "c2", Namespace |-> "ns2"]}

\* cluster c2 has no record
Clusters == {"c1"}

Flavours == {"flavor.small"}

\* ---------------------------------------------------------------- state
VARIABLES
  jobs,      \* the rows of table "job"
  nextPk,    \* the table's auto-increment counter
  runtimes,  \* the runtime registry: cluster IDs that have a cached handle
  now,       \* time.Now()
  ret,       \* what the last call returned to its caller
  calls,     \* the repository writes and runtime calls the last call made
  callers,   \* the calls in progress of the concurrent request handlers
  registry   \* the runtime registry: handles, constructions in progress

vars == <<jobs, nextPk, runtimes, now, ret, calls, callers, registry>>

\* schema.Conf, the fields the handlers read or write
ZeroConf ==
  [QueueID |-> "", ClusterID |-> "", Namespace |-> "", Priority |-> "",
   Flavour |-> "", Image |-> ""]

NullTime == [Time |-> 0, Valid |-> FALSE]

\* models.Job: the zero value of the struct (the columns the operations read
\* or write; the struct has no column for the extension template)
ZeroJob ==
  [Pk |-> 0, ID |-> EmptyID, QueueID |-> "", Config |-> ZeroConf,
   RuntimeInfoJson |-> "", Status |-> "", Message |-> "",
   ActivatedAt |-> NullTime]

\* column runtime_info has default '{}'
DefaultRuntimeInfoJson == "{}"

\* a request handler that is in no call
IdleCaller == [pc |-> "idle"]

\* one call the handler made to the repository or to the runtime service
Call(name, ok) == [call |-> name, ok |-> ok]

\* ------------------------------------------------------ models/job.go
\* json.Marshal of the values in InfoInputs; a channel cannot be marshalled
MarshalOK(info) == info # "chan"

Marshal(info) ==
  CASE info = "map[pod:p1]" -> "{\"pod\":\"p1\"}"
    [] info = "map[pod:p2]" -> "{\"pod\":\"p2\"}"
    [] OTHER -> "null"

BeforeSave_AlwaysMarshal(job, runtimeInfo) ==
  IF MarshalOK(runtimeInfo)
  THEN [job |-> [job EXCEPT !.RuntimeInfoJson = Marshal(runtimeInfo)], err |-> nil]
  ELSE [job |-> job, err |-> Err("json: unsupported type", "", <<>>)]

\* Job.BeforeSave: runtimeInfo is the in-memory RuntimeInfo field (gorm:"-")
BeforeSave(job, runtimeInfo) ==
  IF runtimeInfo # InfoNil
  THEN IF MarshalOK(runtimeInfo)
       THEN [job |-> [job EXCEPT !.RuntimeInfoJson = Marshal(runtimeInfo)], err |-> nil]
       ELSE [job |-> job, err |-> Err("json: unsupported type", "", <<>>)]
  ELSE [job |-> job, err |-> nil]

CreateJobRow_NoUniqueIndex(tbl, pk, job, dbOK) ==
  IF ~dbOK THEN [jobs |-> tbl, err |-> Err("db", "create", <<>>)]
  ELSE LET b == BeforeSave(job, InfoNil).job
           row == [b EXCEPT !.Pk = pk,
                     !.RuntimeInfoJson =
                        IF @ = "" THEN DefaultRuntimeInfoJson ELSE @]
       IN [jobs |-> tbl \cup {row}, err |-> nil]

\* models.CreateJob: the insert assigns the next Pk and the column default;
\* the unique index on id rejects a duplicate
CreateJobRow(tbl, pk, job, dbOK) ==
  IF ~dbOK THEN [jobs |-> tbl, err |-> Err("db", "create", <<>>)]
  ELSE IF \E r \in tbl : r.ID = job.ID
  THEN [jobs |-> tbl, err |-> Err("UNIQUE constraint failed", "job.id", <<>>)]
  ELSE LET b == BeforeSave(job, InfoNil).job
           row == [b EXCEPT !.Pk = pk,
                     !.RuntimeInfoJson =
                        IF @ = "" THEN DefaultRuntimeInfoJson ELSE @]
       IN [jobs |-> tbl \cup {row}, err |-> nil]

GetJobByID_ZeroOnMiss(tbl, jobID) ==
  LET m == {r \in tbl : r.ID = jobID}
  IN IF m = {} THEN [job |-> ZeroJob, err |-> nil]
     ELSE [job |-> CHOOSE r \in m : \A o \in m : r.Pk <= o.Pk, err |-> nil]

\* Where("id = ?", jobID).First(&job): the first row in primary-key order
GetJobByID(tbl, jobID) ==
  LET m == {r \in tbl : r.ID = jobID}
  IN IF m = {} THEN [job |-> ZeroJob, err |-> ErrRecordNotFound]
     ELSE [job |-> CHOOSE r \in m : \A o \in m : r.Pk <= o.Pk, err |-> nil]

GetJobStatusByID(tbl, jobID) ==
  LET g == GetJobByID(tbl, jobID)
  IN IF g.err # nil THEN [status |-> "", err |-> JobIDNotFoundError(jobID)]
     ELSE [status |-> g.job.Status, err |-> nil]

GuardedStatus_NoGuard(current, requested) ==
  IF requested # "" THEN requested ELSE current

\* lines 94-96 and 113-115: the status the loaded job carries after the guard
GuardedStatus(current, requested) ==
  IF requested # "" /\ ~IsImmutableJobStatus(current) THEN requested ELSE current

GuardedMessage_Ignored(current, message) == current

\* lines 97-99 and 119-121
GuardedMessage(current, message) ==
  IF message # "" THEN message ELSE current

\* gorm Updates(struct): only the non-zero fields of the struct are written
Updates(row, job) ==
  [f \in DOMAIN row |-> IF job[f] = ZeroJob[f] THEN row[f] ELSE job[f]]

\* UpdateJobStatus, lines 90-99: the record is loaded and changed in memory
UpdateJobStatusRead(tbl, jobId, errMessage, jobStatus) ==
  LET g == GetJobByID(tbl, jobId)
  IN IF g.err # nil THEN [job |-> ZeroJob, err |-> JobIDNotFoundError(jobId)]
     ELSE [job |-> [g.job EXCEPT !.Status = GuardedStatus(@, jobStatus),
                                 !.Message = GuardedMessage(@, errMessage)],
           err |-> nil]

\* UpdateJobStatus, lines 101-105: the record in memory is written to the
\* table as it is at that time
UpdateJobStatusWrite(tbl, jobId, job, dbOK) ==
  IF ~dbOK
  THEN [jobs |-> tbl, err |-> Err("db", "update", <<>>),
        calls |-> <<Call("db.Updates", FALSE)>>]
  ELSE [jobs |-> {IF r.ID = jobId THEN Updates(r, job) ELSE r : r \in tbl},
        err |-> nil, calls |-> <<Call("db.Updates", TRUE)>>]

UpdateJobStatus(tbl, jobId, errMessage, jobStatus, dbOK) ==
  LET rd == UpdateJobStatusRead(tbl, jobId, errMessage, jobStatus)
  IN IF rd.err # nil THEN [jobs |-> tbl, err |-> rd.err, calls |-> <<>>]
     ELSE UpdateJobStatusWrite(tbl, jobId, rd.job, dbOK)

\* lines 122-125
StampActivatedAt(job, status, t) ==
  IF status = StatusJobRunning
  THEN [job EXCEPT !.ActivatedAt = [Time |-> t, Valid |-> TRUE]]
  ELSE job

\* lines 116-118: the RuntimeInfo field of the loaded job (nil after a load)
GuardedInfo(info) == IF info # InfoNil THEN info ELSE InfoNil

\* gorm Save of a record with a primary key: every column is written
Save(tbl, jobID, job) ==
  {IF r.ID = jobID /\ r.Pk = job.Pk THEN job ELSE r : r \in tbl}

\* UpdateJob, lines 109-125: the record is loaded and changed in memory;
\* err is the variable err of line 109 as it stands after the load
UpdateJobRead(tbl, jobID, status, info, message, t) ==
  LET g == GetJobByID(tbl, jobID)
      job1 == [g.job EXCEPT !.Status = GuardedStatus(@, status),
                            !.Message = GuardedMessage(@, message)]
  IN [job |-> StampActivatedAt(job1, status, t),
      RuntimeInfo |-> GuardedInfo(info), err |-> g.err]

\* UpdateJob, lines 126-131: the record in memory is saved; the failure of
\* the save returns the variable err of line 109
UpdateJobWrite(tbl, jobID, job, runtimeInfo, err, dbOK) ==
  LET b == BeforeSave(job, runtimeInfo)
  IN IF b.err # nil \/ ~dbOK
     THEN [jobs |-> tbl, status |-> "", err |-> err,
           calls |-> <<Call("db.Save", FALSE)>>]
     ELSE [jobs |-> Save(tbl, jobID, b.job), status |-> b.job.Status,
           err |-> nil, calls |-> <<Call("db.Save", TRUE)>>]

UpdateJob(tbl, jobID, status, info, message, t, dbOK) ==
  LET rd == UpdateJobRead(tbl, jobID, status, info, message, t)
  IN IF rd.err # nil
     THEN [jobs |-> tbl, status |-> "", err |-> JobIDNotFoundError(jobID),
           calls |-> <<>>]
     ELSE UpdateJobWrite(tbl, jobID, rd.job, rd.RuntimeInfo, rd.err, dbOK)

\* SQL LIKE: % matches any sequence of characters, _ any one character
RECURSIVE Like(_, _)
Like(pattern, str) ==
  IF pattern = <<>> THEN str = <<>>
  ELSE IF Head(pattern) = "%"
  THEN Like(Tail(pattern), str) \/ (str # <<>> /\ Like(pattern, Tail(str)))
  ELSE /\ str # <<>>
       /\ Head(pattern) = "_" \/ Head(pattern) = Head(str)
       /\ Like(Tail(pattern), Tail(str))

\* "job-" + runID + "-%"
RunPattern(runID) == <<"j", "o", "b", "-">> \o runID \o <<"-", "%">>

GetJobsByRunID(tbl, runID, jobID, dbOK) ==
  LET byRun == {r \in tbl : Like(RunPattern(runID), r.ID)}
      query == IF jobID # EmptyID THEN {r \in byRun : r.ID = jobID} ELSE byRun
  IN IF ~dbOK THEN [jobList |-> {}, err |-> Err("db", "find", <<>>)]
     ELSE [jobList |-> query, err |-> nil]

\* models.DeleteJob: removes the rows with this id
DeleteJobRow(tbl, jobID, dbOK) ==
  IF dbOK THEN [jobs |-> {r \in tbl : r.ID # jobID}, err |-> nil]
  ELSE [jobs |-> tbl, err |-> Err("db", "delete", <<>>)]

\* ------------------------------------------------- directory lookups
GetQueueByID(queueID) ==
  IF \E q \in Queues : q.ID = queueID
  THEN [queue |-> CHOOSE q \in Queues : q.ID = queueID, err |-> nil]
  ELSE [queue |-> [ID |-> "", Name |-> "", ClusterId |-> "", Namespace |-> ""],
        err |-> ErrRecordNotFound]

GetClusterById(clusterID) ==
  IF clusterID \in Clusters THEN [cluster |-> clusterID, err |-> nil]
  ELSE [cluster |-> "", err |-> Err("cluster not found", clusterID, <<>>)]

GetFlavour(name) ==
  IF name \in Flavours THEN [flavour |-> name, err |-> nil]
  ELSE [flavour |-> "", err |-> Err("flavour not found", name, <<>>)]

\* runtime.GetOrCreateRuntime: one cached handle per cluster ID, constructed
\* on first use; a failed construction is not cached
GetOrCreateRuntime(cache, clusterInfo, initOK) ==
  IF clusterInfo \in cache THEN [svc |-> clusterInfo, err |-> nil, runtimes |-> cache]
  ELSE IF initOK
  THEN [svc |-> clusterInfo, err |-> nil, runtimes |-> cache \cup {clusterInfo}]
  ELSE [svc |-> "", err |-> Err("RuntimeInitError", clusterInfo, <<>>), runtimes |-> cache]

\* The registry under concurrent callers. A handle is the serial number of
\* its construction; a flight is one construction in progress, which the
\* callers that arrive meanwhile for the same cluster join.
NoHandle == 0
NoFlight == 0

EmptyRegistry ==
  [handles |-> <<>>, flights |-> <<>>, results |-> <<>>, started |-> 0,
   built |-> 0]

Drop(f, k) == [x \in DOMAIN f \ {k} |-> f[x]]

RegistryEnter_NoGuard(reg, clusterInfo) ==
  IF clusterInfo \in DOMAIN reg.handles
  THEN [pc |-> "done", flight |-> NoFlight, handle |-> reg.handles[clusterInfo],
        registry |-> reg]
  ELSE [pc |-> "construct", flight |-> reg.started + 1, handle |-> NoHandle,
        registry |-> [reg EXCEPT !.started = @ + 1,
                                 !.flights = (clusterInfo :> reg.started + 1) @@ @]]

\* GetOrCreateRuntime, entry: the cached handle is returned at once; a caller
\* that finds a construction in progress for the cluster joins it; the first
\* caller starts the construction
RegistryEnter(reg, clusterInfo) ==
  IF clusterInfo \in DOMAIN reg.handles
  THEN [pc |-> "done", flight |-> NoFlight, handle |-> reg.handles[clusterInfo],
        registry |-> reg]
  ELSE IF clusterInfo \in DOMAIN reg.flights
  THEN [pc |-> "wait", flight |-> reg.flights[clusterInfo], handle |-> NoHandle,
        registry |-> reg]
  ELSE [pc |-> "construct", flight |-> reg.started + 1, handle |-> NoHandle,
        registry |-> [reg EXCEPT !.started = @ + 1,
                                 !.flights = (clusterInfo :> reg.started + 1) @@ @]]

\* GetOrCreateRuntime, construction: a new handle is stored in the cache; a
\* failed construction stores nothing; either way the flight ends with its
\* result
RegistryConstruct(reg, clusterInfo, flight, initOK) ==
  IF initOK
  THEN [reg EXCEPT !.built = @ + 1,
                   !.handles = (clusterInfo :> reg.built + 1) @@ @,
                   !.flights = Drop(@, clusterInfo),
                   !.results = (flight :> [cluster |-> clusterInfo,
                                           handle |-> reg.built + 1,
                                           err |-> nil]) @@ @]
  ELSE [reg EXCEPT !.flights = Drop(@, clusterInfo),
                   !.results = (flight :> [cluster |-> clusterInfo,
                                           handle |-> NoHandle,
                                           err |-> Err("RuntimeInitError", clusterInfo, <<>>)]) @@ @]

\* ------------------------------------------------- job handlers
\* yaml.JSONToYAML on the values in TemplateInputs
JSONToYAML(json) ==
  CASE json = "{\"a\":1}" -> [yaml |-> "a: 1\n", err |-> nil]
    [] json = "" -> [yaml |-> "null\n", err |-> nil]
    [] OTHER -> [yaml |-> "", err |-> Err("yaml: invalid json", json, <<>>)]

\* job.ValidateJob: the structural check of the configuration
ValidateJob(conf) ==
  IF conf.Image = "" \/ conf.Flavour = ""
  THEN Err("ValidationError", "", <<>>) ELSE nil

checkPriority_NoDefault(conf) ==
  LET priority == conf.Priority
  IN IF priority # "" /\ priority # EnvJobLowPriority
        /\ priority # EnvJobNormalPriority /\ priority # EnvJobHighPriority
     THEN [conf |-> conf, err |-> InvalidJobPriorityError(priority)]
     ELSE [conf |-> conf, err |-> nil]

checkPriority_NoCheck(conf) ==
  IF conf.Priority = ""
  THEN [conf |-> [conf EXCEPT !.Priority = EnvJobNormalPriority], err |-> nil]
  ELSE [conf |-> conf, err |-> nil]

checkPriority(conf) ==
  LET priority == conf.Priority
  IN IF priority = ""
     THEN [conf |-> [conf EXCEPT !.Priority = EnvJobNormalPriority], err |-> nil]
     ELSE IF priority # EnvJobLowPriority /\ priority # EnvJobNormalPriority
             /\ priority # EnvJobHighPriority
     THEN [conf |-> conf, err |-> InvalidJobPriorityError(priority)]
     ELSE [conf |-> conf, err |-> nil]

CreateJob(tbl, pk, conf, jobID, jobTemplate, genID, dbOK) ==
  LET v == ValidateJob(conf)
      c == checkPriority(conf)
      id == IF jobID = EmptyID THEN genID ELSE jobID
      jobInfo == [ZeroJob EXCEPT !.ID = id, !.QueueID = c.conf.QueueID,
                                 !.Status = StatusJobInit, !.Config = c.conf]
      w == CreateJobRow(tbl, pk, jobInfo, dbOK)
  IN IF v # nil THEN [jobs |-> tbl, id |-> EmptyID, err |-> v, calls |-> <<>>]
     ELSE IF c.err # nil
     THEN [jobs |-> tbl, id |-> EmptyID, err |-> c.err, calls |-> <<>>]
     ELSE IF w.err # nil
     THEN [jobs |-> tbl, id |-> EmptyID,
           err |-> Err("create job in database failed", w.err.kind, <<>>),
           calls |-> <<Call("db.Create", FALSE)>>]
     ELSE [jobs |-> w.jobs, id |-> id, err |-> nil,
           calls |-> <<Call("db.Create", TRUE)>>]

patchEnvs_NoNamespace(conf, commonJobInfo) ==
  LET queueID == commonJobInfo.QueueID
      g == GetQueueByID(queueID)
      c1 == [conf EXCEPT !.QueueID = queueID]
      c2 == IF commonJobInfo.Priority # ""
            THEN [c1 EXCEPT !.Priority = commonJobInfo.Priority] ELSE c1
  IN IF g.err # nil
     THEN [conf |-> conf, err |-> Err("queue not found by id", queueID, <<>>)]
     ELSE [conf |-> [c2 EXCEPT !.ClusterID = g.queue.ClusterId], err |-> nil]

patchEnvs_IgnoreQueueErr(conf, commonJobInfo) ==
  LET queueID == commonJobInfo.QueueID
      g == GetQueueByID(queueID)
      c1 == [conf EXCEPT !.QueueID = queueID]
      c2 == IF commonJobInfo.Priority # ""
            THEN [c1 EXCEPT !.Priority = commonJobInfo.Priority] ELSE c1
  IN [conf |-> [c2 EXCEPT !.ClusterID = g.queue.ClusterId,
                          !.Namespace = g.queue.Namespace],
      err |-> nil]

patchEnvs(conf, commonJobInfo) ==
  LET queueID == commonJobInfo.QueueID
      g == GetQueueByID(queueID)
      c1 == [conf EXCEPT !.QueueID = queueID]
      c2 == IF commonJobInfo.Priority # ""
            THEN [c1 EXCEPT !.Priority = commonJobInfo.Priority] ELSE c1
  IN IF g.err # nil
     THEN [conf |-> conf, err |-> Err("queue not found by id", queueID, <<>>)]
     ELSE [conf |-> [c2 EXCEPT !.ClusterID = g.queue.ClusterId,
                               !.Namespace = g.queue.Namespace],
           err |-> nil]

patchSingleEnvs_PriorityBeforeFlavour(conf, request) ==
  LET p == patchEnvs(conf, request)
      c == checkPriority(p.conf)
      c1 == [c.conf EXCEPT !.Image = request.Image]
      f == GetFlavour(request.Flavour)
  IN IF p.err # nil THEN [conf |-> conf, err |-> p.err]
     ELSE IF c.err # nil THEN [conf |-> p.conf, err |-> c.err]
     ELSE IF f.err # nil THEN [conf |-> c1, err |-> f.err]
     ELSE [conf |-> [c1 EXCEPT !.Flavour = f.flavour], err |-> nil]

patchSingleEnvs(conf, request) ==
  LET p == patchEnvs(conf, request)
      c1 == [p.conf EXCEPT !.Image = request.Image]
      f == GetFlavour(request.Flavour)
  IN IF p.err # nil THEN [conf |-> conf, err |-> p.err]
     ELSE IF f.err # nil THEN [conf |-> c1, err |-> f.err]
     ELSE [conf |-> [c1 EXCEPT !.Flavour = f.flavour], err |-> nil]

CreateSingleJob(tbl, pk, request, genID, dbOK) ==
  LET y == JSONToYAML(request.ExtensionTemplate)
      extensionTemplate == IF request.ExtensionTemplate # "" THEN y.yaml ELSE ""
      conf == [ZeroConf EXCEPT !.Image = request.Image,
                               !.Priority = request.Priority,
                               !.Flavour = request.Flavour]
      p == patchSingleEnvs(conf, request)
      c == CreateJob(tbl, pk, p.conf, request.ID, extensionTemplate, genID, dbOK)
  IN IF request.ExtensionTemplate # "" /\ y.err # nil
     THEN [jobs |-> tbl, id |-> EmptyID, err |-> y.err, calls |-> <<>>]
     ELSE IF p.err # nil
     THEN [jobs |-> tbl, id |-> EmptyID, err |-> p.err, calls |-> <<>>]
     ELSE c

CheckPermission == nil

getRuntimeByQueue_IgnoreClusterErr(cache, queueID, initOK) ==
  LET q == GetQueueByID(queueID)
      r == GetOrCreateRuntime(cache, q.queue.ClusterId, initOK)
  IN IF q.err # nil
     THEN [svc |-> "", err |-> q.err, runtimes |-> cache, code |-> ""]
     ELSE IF r.err # nil
     THEN [svc |-> "", err |-> Err("delete queue failed", "", <<>>),
           runtimes |-> r.runtimes, code |-> InternalError]
     ELSE [svc |-> r.svc, err |-> nil, runtimes |-> r.runtimes, code |-> ""]

getRuntimeByQueue(cache, queueID, initOK) ==
  LET q == GetQueueByID(queueID)
      cl == GetClusterById(q.queue.ClusterId)
      r == GetOrCreateRuntime(cache, cl.cluster, initOK)
  IN IF q.err # nil
     THEN [svc |-> "", err |-> q.err, runtimes |-> cache, code |-> ""]
     ELSE IF cl.err # nil
     THEN [svc |-> "", err |-> cl.err, runtimes |-> cache, code |-> ""]
     ELSE IF r.err # nil
     THEN [svc |-> "", err |-> Err("delete queue failed", "", <<>>),
           runtimes |-> r.runtimes, code |-> InternalError]
     ELSE [svc |-> r.svc, err |-> nil, runtimes |-> r.runtimes, code |-> ""]

\* api.NewJobInfo: the job-info view handed to the runtime service
NewJobInfo(job, infoOK) ==
  IF infoOK THEN nil ELSE Err("NewJobInfo failed", "", <<>>)

\* runtimeSvc.DeleteJob / runtimeSvc.StopJob: the cluster's answer
RuntimeCall(name, rtOK) ==
  IF rtOK THEN nil ELSE Err("RuntimeError", name, <<>>)

DeleteAfterRuntime_StoreFirst(tbl, jobID, rt, dbOK) ==
  LET d == DeleteJobRow(tbl, jobID, dbOK)
  IN IF rt # nil THEN [jobs |-> d.jobs, err |-> rt] ELSE d

\* DeleteJob, lines 355-365: the record is removed once the runtime has
\* deleted the job
DeleteAfterRuntime(tbl, jobID, rt, dbOK) ==
  IF rt # nil THEN [jobs |-> tbl, err |-> rt]
  ELSE DeleteJobRow(tbl, jobID, dbOK)

DeleteJob_RejectTerminal(tbl, cache, jobID, initOK, infoOK, rtOK, dbOK) ==
  LET g == GetJobByID(tbl, jobID)
      rs == getRuntimeByQueue(cache, g.job.QueueID, initOK)
      pf == NewJobInfo(g.job, infoOK)
      rt == RuntimeCall("runtime.DeleteJob", rtOK)
      d == DeleteAfterRuntime(tbl, jobID, rt, dbOK)
  IN IF g.err # nil
     THEN [jobs |-> tbl, runtimes |-> cache, err |-> g.err,
           code |-> JobNotFound, calls |-> <<>>]
     ELSE IF IsImmutableJobStatus(g.job.Status)
     THEN [jobs |-> tbl, runtimes |-> cache,
           err |-> Err("job cannot be deleted", g.job.Status, jobID),
           code |-> "", calls |-> <<>>]
     ELSE IF rs.err # nil
     THEN [jobs |-> tbl, runtimes |-> rs.runtimes, err |-> rs.err,
           code |-> rs.code, calls |-> <<>>]
     ELSE IF pf # nil
     THEN [jobs |-> tbl, runtimes |-> rs.runtimes, err |-> pf,
           code |-> "", calls |-> <<>>]
     ELSE IF rt # nil
     THEN [jobs |-> d.jobs, runtimes |-> rs.runtimes, err |-> d.err,
           code |-> "", calls |-> <<Call("runtime.DeleteJob", rtOK)>>]
     ELSE [jobs |-> d.jobs, runtimes |-> rs.runtimes, err |-> d.err,
           code |-> "",
           calls |-> <<Call("runtime.DeleteJob", rtOK), Call("db.Delete", dbOK)>>]

DeleteJob(tbl, cache, jobID, initOK, infoOK, rtOK, dbOK) ==
  LET g == GetJobByID(tbl, jobID)
      rs == getRuntimeByQueue(cache, g.job.QueueID, initOK)
      pf == NewJobInfo(g.job, infoOK)
      rt == RuntimeCall("runtime.DeleteJob", rtOK)
      d == DeleteAfterRuntime(tbl, jobID, rt, dbOK)
  IN IF CheckPermission # nil
     THEN [jobs |-> tbl, runtimes |-> cache, err |-> CheckPermission,
           code |-> "", calls |-> <<>>]
     ELSE IF g.err # nil
     THEN [jobs |-> tbl, runtimes |-> cache, err |-> g.err,
           code |-> JobNotFound, calls |-> <<>>]
     ELSE IF rs.err # nil
     THEN [jobs |-> tbl, runtimes |-> rs.runtimes, err |-> rs.err,
           code |-> rs.code, calls |-> <<>>]
     ELSE IF pf # nil
     THEN [jobs |-> tbl, runtimes |-> rs.runtimes, err |-> pf,
           code |-> "", calls |-> <<>>]
     ELSE IF rt # nil
     THEN [jobs |-> d.jobs, runtimes |-> rs.runtimes, err |-> d.err,
           code |-> "", calls |-> <<Call("runtime.DeleteJob", rtOK)>>]
     ELSE [jobs |-> d.jobs, runtimes |-> rs.runtimes, err |-> d.err,
           code |-> "",
           calls |-> <<Call("runtime.DeleteJob", rtOK), Call("db.Delete", dbOK)>>]

StopRejected_Never(status) == FALSE

\* StopJob, line 379
StopRejected(status) == IsImmutableJobStatus(status)

StopJob(tbl, cache, jobID, initOK, infoOK, rtOK) ==
  LET g == GetJobByID(tbl, jobID)
      rs == getRuntimeByQueue(cache, g.job.QueueID, initOK)
      pf == NewJobInfo(g.job, infoOK)
      rt == RuntimeCall("runtime.StopJob", rtOK)
  IN IF CheckPermission # nil
     THEN [runtimes |-> cache, err |-> CheckPermission, code |-> "", calls |-> <<>>]
     ELSE IF g.err # nil
     THEN [runtimes |-> cache, err |-> g.err, code |-> JobNotFound, calls |-> <<>>]
     ELSE IF StopRejected(g.job.Status)
     THEN [runtimes |-> cache, err |-> Err("job cannot be stopped", g.job.Status, jobID),
           code |-> "", calls |-> <<>>]
     ELSE IF rs.err # nil
     THEN [runtimes |-> rs.runtimes, err |-> rs.err, code |-> rs.code, calls |-> <<>>]
     ELSE IF pf # nil
     THEN [runtimes |-> rs.runtimes, err |-> pf, code |-> "", calls |-> <<>>]
     ELSE [runtimes |-> rs.runtimes, err |-> rt, code |-> "",
           calls |-> <<Call("runtime.StopJob", rtOK)>>]

\* ---------------------------------------------------------- specification
AllRequests ==
  [ID : RequestIDs, QueueID : QueueInputs, Priority : PriorityInputs,
   Flavour : FlavourInputs, Image : ImageInputs,
   ExtensionTemplate : TemplateInputs]

\* a request that passes every check of the submission
IsPlain(r) ==
  /\ r.QueueID = "q1" /\ r.Priority = "" /\ r.Flavour = "flavor.small"
  /\ r.Image = "img"

\* the submissions: every combination of ID, queue, priority and flavour
\* with an image and no extension template; the well-formed request with
\* each extension template; every ID and priority without an image
Requests ==
  {r \in AllRequests :
     \/ r.ExtensionTemplate = "" /\ r.Image = "img"
     \/ IsPlain(r)
     \/ /\ r.ExtensionTemplate = "" /\ r.Image = ""
        /\ r.QueueID = "q1" /\ r.Flavour = "flavor.small"}

\* configurations handed to CreateJob by callers other than CreateSingleJob
Confs ==
  [QueueID : {"q9"}, ClusterID : {""}, Namespace : {""},
   Priority : PriorityInputs, Flavour : {"flavor.small"}, Image : ImageInputs]

\* the arguments of the last call that the caller chose: the requested
\* status, message and runtime info of an update, the priority of a submission
Args(status, message, info, priority) ==
  [status |-> status, message |-> message, info |-> info, priority |-> priority]
NoArgs == Args("", "", InfoNil, "")

\* retry: the call repeats, on the same job, a DeleteJob that the runtime
\* service failed; again: the call is a DeleteJob or StopJob on a job that a
\* DeleteJob deleted, with only such calls on that job in between; code: the
\* ctx.ErrorCode the handler set
Ret(op, jobID, arg, err, id, status) ==
  [op |-> op, jobID |-> jobID, arg |-> arg, err |-> err, id |-> id,
   status |-> status,
   retry |-> /\ op = "DeleteJob" /\ ret.op = "DeleteJob" /\ ret.jobID = jobID
             /\ ret.err.kind = "RuntimeError",
   again |-> /\ op \in {"DeleteJob", "StopJob"} /\ ret.jobID = jobID
             /\ \/ ret.op = "DeleteJob" /\ ret.err = nil
                \/ ret.again,
   code |-> "", runID |-> <<>>, jobList |-> {}]

\* uuid.GenerateID: an ID no row carries
FreshIDs == {g \in GeneratedIDs : \A r \in jobs : r.ID # g}

Init ==
  /\ jobs = {}
  /\ nextPk = 1
  /\ runtimes = {}
  /\ now = 0
  /\ ret = [op |-> "", jobID |-> EmptyID, arg |-> NoArgs, err |-> nil,
            id |-> EmptyID, status |-> "", retry |-> FALSE, again |-> FALSE,
            code |-> "", runID |-> <<>>, jobList |-> {}]
  /\ calls = <<>>
  /\ callers = [p \in Callers |-> IdleCaller]
  /\ registry = EmptyRegistry

Tick == now < MaxTime /\ now' = now + 1

DoCreateSingleJob(requests) ==
  /\ Tick
  /\ \E request \in requests, dbOK \in BOOLEAN :
    \E genID \in (IF request.ID = EmptyID THEN FreshIDs ELSE {EmptyID}) :
      LET r == CreateSingleJob(jobs, nextPk, request, genID, dbOK)
      IN /\ jobs' = r.jobs
         /\ nextPk' = IF r.err = nil THEN nextPk + 1 ELSE nextPk
         /\ ret' = Ret("CreateSingleJob", request.ID, Args("", "", InfoNil, request.Priority), r.err, r.id, "")
         /\ calls' = r.calls
         /\ UNCHANGED <<runtimes, callers, registry>>

DoCreateJob(confs) ==
  /\ Tick
  /\ \E conf \in confs, jobID \in RequestIDs, dbOK \in BOOLEAN :
    \E genID \in (IF jobID = EmptyID THEN FreshIDs ELSE {EmptyID}) :
      LET r == CreateJob(jobs, nextPk, conf, jobID, "", genID, dbOK)
      IN /\ jobs' = r.jobs
         /\ nextPk' = IF r.err = nil THEN nextPk + 1 ELSE nextPk
         /\ ret' = Ret("CreateJob", jobID, Args("", "", InfoNil, conf.Priority), r.err, r.id, "")
         /\ calls' = r.calls
         /\ UNCHANGED <<runtimes, callers, registry>>

DoUpdateJobStatus(messages, statuses, oks) ==
  /\ Tick
  /\ \E jobId \in LookupIDs, errMessage \in messages, jobStatus \in statuses,
     dbOK \in oks :
    LET r == UpdateJobStatus(jobs, jobId, errMessage, jobStatus, dbOK)
    IN /\ jobs' = r.jobs
       /\ ret' = Ret("UpdateJobStatus", jobId, Args(jobStatus, errMessage, InfoNil, ""), r.err, EmptyID, "")
       /\ calls' = r.calls
       /\ UNCHANGED <<nextPk, runtimes, callers, registry>>

DoUpdateJob(statuses, infos, messages, oks) ==
  /\ Tick
  /\ \E jobID \in LookupIDs, status \in statuses, info \in infos,
     message \in messages, dbOK \in oks :
    LET r == UpdateJob(jobs, jobID, status, info, message, now + 1, dbOK)
    IN /\ jobs' = r.jobs
       /\ ret' = Ret("UpdateJob", jobID, Args(status, message, info, ""), r.err, EmptyID, r.status)
       /\ calls' = r.calls
       /\ UNCHANGED <<nextPk, runtimes, callers, registry>>

\* A call ends at its first failure, so the environment fails at most one of
\* the steps of a call: the construction of the runtime handle, the job-info
\* view, the runtime service call or the repository write.
DeleteFaults == {"none", "init", "info", "runtime", "db"}
StopFaults == {"none", "init", "info", "runtime"}

DoDeleteJob ==
  /\ Tick
  /\ \E jobID \in LookupIDs, fault \in DeleteFaults :
    LET r == DeleteJob(jobs, runtimes, jobID, fault # "init", fault # "info",
                       fault # "runtime", fault # "db")
    IN /\ jobs' = r.jobs
       /\ runtimes' = r.runtimes
       /\ ret' = [Ret("DeleteJob", jobID, NoArgs, r.err, EmptyID, "")
                   EXCEPT !.code = r.code]
       /\ calls' = r.calls
       /\ UNCHANGED <<nextPk, callers, registry>>

DoStopJob ==
  /\ Tick
  /\ \E jobID \in LookupIDs, fault \in StopFaults :
    LET r == StopJob(jobs, runtimes, jobID, fault # "init", fault # "info",
                     fault # "runtime")
    IN /\ runtimes' = r.runtimes
       /\ ret' = [Ret("StopJob", jobID, NoArgs, r.err, EmptyID, "")
                   EXCEPT !.code = r.code]
       /\ calls' = r.calls
       /\ UNCHANGED <<jobs, nextPk, callers, registry>>

\* The handlers: submissions, deletions and stops over all their inputs; the
\* status watcher moves jobs through the state machine.
WatcherStatuses == {StatusJobRunning, StatusJobSucceeded}

Next ==
  \/ DoCreateSingleJob(Requests)
  \/ DoCreateJob(Confs)
  \/ DoUpdateJobStatus({""}, WatcherStatuses, {TRUE})
  \/ DoDeleteJob
  \/ DoStopJob

Spec == Init /\ [][Next]_vars

\* The job table: updates over all their inputs, on jobs submitted with a
\* well-formed request.
PlainRequests == {r \in Requests : IsPlain(r) /\ r.ExtensionTemplate = ""}

NextRepo ==
  \/ DoCreateSingleJob(PlainRequests)
  \/ DoUpdateJobStatus(Messages, StatusInputs, BOOLEAN)
  \/ DoUpdateJob(StatusInputs, InfoInputs, Messages, BOOLEAN)

SpecRepo == Init /\ [][NextRepo]_vars

\* The life of a record: creations with requested and generated IDs, status
\* updates, attachments of runtime info and deletions.
AttachedInfos == {InfoNil, "map[pod:p1]"}

NextIDs ==
  \/ DoCreateSingleJob(PlainRequests)
  \/ DoCreateJob(Confs)
  \/ DoUpdateJobStatus({""}, WatcherStatuses, BOOLEAN)
  \/ DoUpdateJob(WatcherStatuses, AttachedInfos, {""}, BOOLEAN)
  \/ DoDeleteJob

SpecIDs == Init /\ [][NextIDs]_vars

\* The submission pipeline: CreateSingleJob over every request.
NextSubmit ==
  \/ DoCreateSingleJob(AllRequests)

SpecSubmit == Init /\ [][NextSubmit]_vars

\* The jobs of a run: submissions with the IDs of the steps of runs, and
\* queries by run ID.
ListRequests == {[r EXCEPT !.ID = id] : r \in PlainRequests, id \in ListIDs}

DoGetJobsByRunID ==
  /\ Tick
  /\ \E runID \in RunIDs, jobID \in ListIDs \cup {EmptyID}, dbOK \in BOOLEAN :
       LET r == GetJobsByRunID(jobs, runID, jobID, dbOK)
       IN ret' = [Ret("GetJobsByRunID", jobID, NoArgs, r.err, EmptyID, "")
                    EXCEPT !.runID = runID, !.jobList = r.jobList]
  /\ calls' = <<>>
  /\ UNCHANGED <<jobs, nextPk, runtimes, callers, registry>>

NextList ==
  \/ DoCreateSingleJob(ListRequests)
  \/ DoGetJobsByRunID

SpecList == Init /\ [][NextList]_vars

\* Concurrent updates of one table by the request handlers and the status
\* watchers: a call loads the record and changes it in memory in one step
\* and writes it in a later step; calls of other handlers may come between.
\* A call that finds no record returns at once.
BeginUpdateJobStatus(p) ==
  /\ Tick
  /\ callers[p].pc = "idle"
  /\ \E jobId \in LookupIDs, jobStatus \in WatcherStatuses :
       LET rd == UpdateJobStatusRead(jobs, jobId, "", jobStatus)
       IN IF rd.err # nil
          THEN /\ ret' = Ret("UpdateJobStatus", jobId,
                             Args(jobStatus, "", InfoNil, ""), rd.err, EmptyID, "")
               /\ calls' = <<>>
               /\ UNCHANGED callers
          ELSE /\ callers' = [callers EXCEPT ![p] =
                                [pc |-> "loaded", op |-> "UpdateJobStatus",
                                 jobID |-> jobId, status |-> jobStatus,
                                 job |-> rd.job, RuntimeInfo |-> InfoNil,
                                 err |-> rd.err]]
               /\ UNCHANGED <<ret, calls>>
  /\ UNCHANGED <<jobs, nextPk, runtimes, registry>>

EndUpdateJobStatus(p) ==
  /\ callers[p].pc = "loaded" /\ callers[p].op = "UpdateJobStatus"
  /\ \E dbOK \in BOOLEAN :
       LET c == callers[p]
           w == UpdateJobStatusWrite(jobs, c.jobID, c.job, dbOK)
       IN /\ jobs' = w.jobs
          /\ ret' = Ret(c.op, c.jobID, Args(c.status, "", InfoNil, ""), w.err,
                        EmptyID, "")
          /\ calls' = w.calls
  /\ callers' = [callers EXCEPT ![p] = IdleCaller]
  /\ UNCHANGED <<nextPk, runtimes, now, registry>>

BeginUpdateJob(p) ==
  /\ Tick
  /\ callers[p].pc = "idle"
  /\ \E jobID \in LookupIDs, status \in WatcherStatuses :
       LET rd == UpdateJobRead(jobs, jobID, status, InfoNil, "", now + 1)
       IN IF rd.err # nil
          THEN /\ ret' = Ret("UpdateJob", jobID, Args(status, "", InfoNil, ""),
                             JobIDNotFoundError(jobID), EmptyID, "")
               /\ calls' = <<>>
               /\ UNCHANGED callers
          ELSE /\ callers' = [callers EXCEPT ![p] =
                                [pc |-> "loaded", op |-> "UpdateJob",
                                 jobID |-> jobID, status |-> status,
                                 job |-> rd.job, RuntimeInfo |-> rd.RuntimeInfo,
                                 err |-> rd.err]]
               /\ UNCHANGED <<ret, calls>>
  /\ UNCHANGED <<jobs, nextPk, runtimes, registry>>

EndUpdateJob(p) ==
  /\ callers[p].pc = "loaded" /\ callers[p].op = "UpdateJob"
  /\ \E dbOK \in BOOLEAN :
       LET c == callers[p]
           w == UpdateJobWrite(jobs, c.jobID, c.job, c.RuntimeInfo, c.err, dbOK)
       IN /\ jobs' = w.jobs
          /\ ret' = Ret(c.op, c.jobID, Args(c.status, "", InfoNil, ""), w.err,
                        EmptyID, w.status)
          /\ calls' = w.calls
  /\ callers' = [callers EXCEPT ![p] = IdleCaller]
  /\ UNCHANGED <<nextPk, runtimes, now, registry>>

NextRace ==
  \/ DoCreateSingleJob(PlainRequests)
  \/ \E p \in Callers : BeginUpdateJobStatus(p)
  \/ \E p \in Callers : EndUpdateJobStatus(p)
  \/ \E p \in Callers : BeginUpdateJob(p)
  \/ \E p \in Callers : EndUpdateJob(p)

SpecRace == Init /\ [][NextRace]_vars

\* Concurrent calls of runtime.GetOrCreateRuntime: a caller enters, the
\* caller that started a construction finishes it, a caller that joined a
\* construction returns with its result.
GetRuntimeEnter(p) ==
  /\ Tick
  /\ callers[p].pc \in {"idle", "done"}
  /\ \E clusterInfo \in ClusterInputs :
       LET e == RegistryEnter(registry, clusterInfo)
       IN /\ registry' = e.registry
          /\ callers' = [callers EXCEPT ![p] =
                           [pc |-> e.pc, cluster |-> clusterInfo,
                            flight |-> e.flight, handle |-> e.handle,
                            err |-> nil]]
  /\ UNCHANGED <<jobs, nextPk, runtimes, ret, calls>>

GetRuntimeConstruct(p) ==
  /\ callers[p].pc = "construct"
  /\ \E initOK \in BOOLEAN :
       LET reg == RegistryConstruct(registry, callers[p].cluster,
                                    callers[p].flight, initOK)
           res == reg.results[callers[p].flight]
       IN /\ registry' = reg
          /\ runtimes' = DOMAIN reg.handles
          /\ callers' = [callers EXCEPT ![p].pc = "done",
                                         ![p].handle = res.handle,
                                         ![p].err = res.err]
  /\ UNCHANGED <<jobs, nextPk, now, ret, calls>>

GetRuntimeJoined(p) ==
  /\ callers[p].pc = "wait"
  /\ callers[p].flight \in DOMAIN registry.results
  /\ LET res == registry.results[callers[p].flight]
     IN callers' = [callers EXCEPT ![p].pc = "done",
                                   ![p].handle = res.handle,
                                   ![p].err = res.err]
  /\ UNCHANGED <<jobs, nextPk, runtimes, now, ret, calls, registry>>

NextRuntime ==
  \/ \E p \in Callers : GetRuntimeEnter(p)
  \/ \E p \in Callers : GetRuntimeConstruct(p)
  \/ \E p \in Callers : GetRuntimeJoined(p)

SpecRuntime == Init /\ [][NextRuntime]_vars

\* ------------------------------------------------------------ properties
\* a call was made in this step
Called == now' = now + 1

Has(tbl, id) == \E r \in tbl : r.ID = id

UpdateOps == {"UpdateJobStatus", "UpdateJob"}
CreateOps == {"CreateSingleJob", "CreateJob"}

\* the last call wrote the table
Wrote == Len(calls) > 0 /\ calls[Len(calls)].ok

RuntimeDelete(ok) == Call("runtime.DeleteJob", ok)
RepoDelete(ok) == Call("db.Delete", ok)

\* C1: once the stored status of a job is Succeeded, Failed or Terminated, no
\* UpdateJobStatus or UpdateJob call changes it: the row is still there after
\* the call and carries the same status.
C1_TerminalStatusNeverChanges ==
  [][\A r \in jobs :
       IsImmutableJobStatus(r.Status) =>
         \E r2 \in jobs' : r2.Pk = r.Pk /\ r2.ID = r.ID /\ r2.Status = r.Status]_vars

\* an update that asked for another status was written to a terminal job
C1_Witness ==
  /\ ret.op \in UpdateOps /\ Wrote /\ ret.arg.status # ""
  /\ \E r \in jobs : /\ r.ID = ret.jobID /\ IsImmutableJobStatus(r.Status)
                     /\ r.Status # ret.arg.status

\* UpdateJobStatus is called with a non-empty status on a job whose status is
\* terminal
C2_Case ==
  /\ Called /\ ret'.op = "UpdateJobStatus" /\ ret'.arg.status # ""
  /\ \E r \in jobs : r.ID = ret'.jobID /\ IsImmutableJobStatus(r.Status)

C3_StopTerminalRejected ==
  [][(/\ Called /\ ret'.op = "StopJob"
      /\ \E r \in jobs : r.ID = ret'.jobID /\ IsImmutableJobStatus(r.Status))
     => (ret'.err # nil /\ calls' = <<>> /\ jobs' = jobs)]_vars

C3_Witness ==
  /\ ret.op = "StopJob" /\ ret.err.kind = "job cannot be stopped"
  /\ \E r \in jobs : r.ID = ret.jobID /\ IsImmutableJobStatus(r.Status)

\* the runtime service call of the call failed
RuntimeFailed(c) ==
  \E i \in DOMAIN c :
    c[i].call \in {"runtime.DeleteJob", "runtime.StopJob"} /\ ~c[i].ok

\* DeleteJob or StopJob whose runtime service call fails returns an error and
\* leaves the table as it was
C4_RuntimeFailureKeepsRecord ==
  (Called /\ ret'.op \in {"DeleteJob", "StopJob"} /\ RuntimeFailed(calls'))
  => (ret'.err # nil /\ jobs' = jobs /\ Has(jobs', ret'.jobID))

\* a DeleteJob retry, after a runtime failure, whose runtime call succeeds
C4_Retry ==
  /\ Called /\ ret'.op = "DeleteJob" /\ ret'.retry
  /\ Len(calls') > 0 /\ calls'[1] = RuntimeDelete(TRUE)

\* C4 as stated: when the runtime service call of DeleteJob or StopJob fails
\* the caller gets an error and the record stays unchanged, and a DeleteJob
\* retry whose runtime service call succeeds deletes the record.
C4_Original ==
  [][/\ C4_RuntimeFailureKeepsRecord
     /\ C4_Retry => ~Has(jobs', ret'.jobID)]_vars

\* C4 amended: ... a DeleteJob retry whose runtime service call succeeds
\* deletes the record when the repository delete succeeds; when the
\* repository delete fails the caller gets an error and the record stays
\* unchanged.
C4_RuntimeFailureThenRetry ==
  [][/\ C4_RuntimeFailureKeepsRecord
     /\ C4_Retry =>
          /\ Len(calls') = 2 /\ calls'[2].call = "db.Delete"
          /\ calls'[2].ok => (ret'.err = nil /\ ~Has(jobs', ret'.jobID))
          /\ ~calls'[2].ok => (ret'.err # nil /\ jobs' = jobs)]_vars

\* the retry of a DeleteJob that the runtime had failed removed the record
C4_Witness ==
  /\ ret.op = "DeleteJob" /\ ret.retry /\ ret.err = nil
  /\ calls = <<RuntimeDelete(TRUE), RepoDelete(TRUE)>>
  /\ ~Has(jobs, ret.jobID)

\* the job fetch, the queue lookup or the cluster lookup of DeleteJob/StopJob
\* on this job fails
LookupFails(tbl, jobID) ==
  LET g == GetJobByID(tbl, jobID)
      q == GetQueueByID(g.job.QueueID)
  IN \/ g.err # nil
     \/ q.err # nil
     \/ GetClusterById(q.queue.ClusterId).err # nil

\* C5: in every DeleteJob the repository delete comes only after the runtime
\* service DeleteJob of the same call returned success, the table changes
\* only when both succeeded, and when the job fetch, the queue lookup, the
\* cluster lookup or the acquisition of the runtime handle fails there is no
\* runtime service call and no repository write.
C5_DeleteAfterRuntimeConfirmation ==
  [][(Called /\ ret'.op = "DeleteJob") =>
       /\ calls' \in {<<>>, <<RuntimeDelete(FALSE)>>,
                      <<RuntimeDelete(TRUE), RepoDelete(TRUE)>>,
                      <<RuntimeDelete(TRUE), RepoDelete(FALSE)>>}
       /\ jobs' # jobs => calls' = <<RuntimeDelete(TRUE), RepoDelete(TRUE)>>
       /\ (LookupFails(jobs, ret'.jobID) \/ ret'.err.kind = "delete queue failed")
            => (calls' = <<>> /\ jobs' = jobs /\ ret'.err # nil)]_vars

\* DeleteJob of a stored job whose cluster has no record
C5_Witness ==
  /\ ret.op = "DeleteJob" /\ ret.err.kind = "cluster not found"
  /\ Has(jobs, ret.jobID) /\ calls = <<>>

InvalidPriority(p) ==
  p # "" /\ p \notin {EnvJobLowPriority, EnvJobNormalPriority, EnvJobHighPriority}

\* C6 as stated: CreateJob with a priority that is non-empty and not low,
\* normal or high fails with InvalidPriority carrying the value, returns no
\* job ID and never calls the repository Create.
C6_Original ==
  [][(Called /\ ret'.op = "CreateJob" /\ InvalidPriority(ret'.arg.priority))
     => /\ ret'.err = InvalidJobPriorityError(ret'.arg.priority)
        /\ ret'.id = EmptyID /\ calls' = <<>> /\ jobs' = jobs]_vars

\* C6 amended: a submission with such a priority fails, returns no job ID and
\* never calls the repository Create; CreateJob fails with InvalidPriority
\* carrying the value whenever the configuration passes the structural
\* validation that CreateJob runs first.
C6_InvalidPriorityRejected ==
  [][(Called /\ ret'.op \in CreateOps /\ InvalidPriority(ret'.arg.priority))
     => /\ ret'.err # nil
        /\ ret'.id = EmptyID /\ calls' = <<>> /\ jobs' = jobs
        /\ (ret'.op = "CreateJob" /\ ret'.err.kind # "ValidationError")
             => ret'.err = InvalidJobPriorityError(ret'.arg.priority)]_vars

C6_Witness ==
  /\ ret.op = "CreateJob" /\ InvalidPriority(ret.arg.priority)
  /\ ret.err = InvalidJobPriorityError(ret.arg.priority)
  /\ ret.id = EmptyID /\ calls = <<>>

\* C7: a successful submission stores priority "normal" when the requested
\* priority is empty, and the requested priority when that is low, normal or
\* high.
C7_StoredPriority ==
  [][(Called /\ ret'.op \in CreateOps /\ ret'.err = nil) =>
       \E r \in jobs' \ jobs :
         /\ r.ID = ret'.id
         /\ r.Config.Priority =
              IF ret'.arg.priority = "" THEN EnvJobNormalPriority
              ELSE ret'.arg.priority
         /\ r.Config.Priority \in
              {EnvJobLowPriority, EnvJobNormalPriority, EnvJobHighPriority}]_vars

C7_Witness ==
  /\ ret.op = "CreateSingleJob" /\ ret.err = nil /\ ret.arg.priority = ""
  /\ \E r \in jobs : r.ID = ret.id /\ r.Config.Priority = EnvJobNormalPriority

\* C8: every record a successful CreateSingleJob creates has status Init and
\* a configuration with the requested queue ID and the cluster ID and
\* namespace of the queue record of that ID; a submission makes no runtime
\* service call.
C8_CreatedRecord ==
  /\ \A request \in Requests :
       \A genID \in (IF request.ID = EmptyID THEN FreshIDs ELSE {EmptyID}) :
         LET r == CreateSingleJob(jobs, nextPk, request, genID, TRUE)
             q == GetQueueByID(request.QueueID)
         IN r.err = nil =>
              /\ q.err = nil
              /\ r.calls = <<Call("db.Create", TRUE)>>
              /\ \E row \in r.jobs \ jobs :
                   /\ r.jobs = jobs \cup {row}
                   /\ row.ID = r.id
                   /\ row.Status = StatusJobInit
                   /\ row.QueueID = request.QueueID
                   /\ row.Config.QueueID = request.QueueID
                   /\ row.Config.ClusterID = q.queue.ClusterId
                   /\ row.Config.Namespace = q.queue.Namespace
  /\ ret.op \in CreateOps =>
       /\ calls \in {<<>>, <<Call("db.Create", TRUE)>>, <<Call("db.Create", FALSE)>>}
       /\ (ret.op = "CreateSingleJob" /\ ret.err = nil) =>
            \E row \in jobs :
              LET q == GetQueueByID(row.Config.QueueID)
              IN /\ row.ID = ret.id /\ row.Status = StatusJobInit
                 /\ q.err = nil
                 /\ row.Config.ClusterID = q.queue.ClusterId
                 /\ row.Config.Namespace = q.queue.Namespace

\* a job submitted to queue q2 is stored with that queue's cluster and
\* namespace
C8_Witness ==
  /\ ret.op = "CreateSingleJob" /\ ret.err = nil
  /\ \E r \in jobs : /\ r.ID = ret.id /\ r.Status = StatusJobInit
                     /\ r.Config.QueueID = "q2" /\ r.Config.ClusterID = "c2"
                     /\ r.Config.Namespace = "ns2"

\* C9: once ActivatedAt of a job is stamped, no later UpdateJob or
\* UpdateJobStatus call changes its value.
C9_ActivatedAtSetOnce ==
  [][\A r \in jobs :
       r.ActivatedAt.Valid =>
         \A r2 \in jobs' : r2.Pk = r.Pk => r2.ActivatedAt = r.ActivatedAt]_vars

\* C10: a call that supplies no runtime info leaves the stored runtime info of
\* every job as it was; the stored runtime info changes only in an UpdateJob
\* that supplies info, and then to the serialization of that info.
C10_RuntimeInfoKept ==
  [][(Called /\ ret'.op \in UpdateOps) =>
       \A r \in jobs :
         \E r2 \in jobs' :
           /\ r2.Pk = r.Pk
           /\ ret'.arg.info = InfoNil => r2.RuntimeInfoJson = r.RuntimeInfoJson
           /\ r2.RuntimeInfoJson # r.RuntimeInfoJson =>
                /\ ret'.op = "UpdateJob" /\ r.ID = ret'.jobID
                /\ r2.RuntimeInfoJson = Marshal(ret'.arg.info)]_vars

\* a job that has runtime info attached went through a written update that
\* supplied none
C10_Witness ==
  /\ ret.op \in UpdateOps /\ Wrote /\ ret.arg.info = InfoNil
  /\ \E r \in jobs : /\ r.ID = ret.jobID
                     /\ r.RuntimeInfoJson \in {Marshal("map[pod:p1]"), Marshal("map[pod:p2]")}

\* C11: at most one record holds a given ID, no call changes the ID of a
\* record, and an update or a failed call adds or removes no ID; a successful
\* creation with a non-empty requested ID returns that ID and adds the one
\* record that carries it; a creation whose repository Create fails returns an
\* error and no job ID and leaves the table as it was.
C11_UniqueImmutableID ==
  [][/\ \A r1, r2 \in jobs' : r1.ID = r2.ID => r1 = r2
     /\ \A r \in jobs : \A r2 \in jobs' : r2.Pk = r.Pk => r2.ID = r.ID
     /\ (Called /\ ret'.op \in UpdateOps) =>
          {<<r.Pk, r.ID>> : r \in jobs'} = {<<r.Pk, r.ID>> : r \in jobs}
     /\ (Called /\ ret'.op \in CreateOps) =>
          /\ (ret'.err = nil /\ ret'.jobID # EmptyID) =>
               /\ ret'.id = ret'.jobID
               /\ ~Has(jobs, ret'.jobID)
               /\ \E row \in jobs' : row.ID = ret'.jobID /\ jobs' = jobs \cup {row}
          /\ calls' = <<Call("db.Create", FALSE)>> =>
               (ret'.err # nil /\ ret'.id = EmptyID /\ jobs' = jobs)
          /\ ret'.err # nil => (ret'.id = EmptyID /\ jobs' = jobs)]_vars

\* a creation with an ID that a record already holds was refused by the
\* unique index, and the record is still there
C11_Witness ==
  /\ ret.op \in CreateOps /\ ret.jobID # EmptyID
  /\ ret.err = Err("create job in database failed", "UNIQUE constraint failed", <<>>)
  /\ ret.id = EmptyID /\ calls = <<Call("db.Create", FALSE)>>
  /\ Cardinality({r \in jobs : r.ID = ret.jobID}) = 1

\* C12: a successful DeleteJob leaves no record with the job ID, and a
\* DeleteJob or StopJob on a job ID that has no record returns the
\* record-not-found error with error code JobNotFound, makes no runtime
\* service call and changes neither the table nor the runtime registry; this
\* is the case of every such call that follows a successful DeleteJob of the
\* job.
C12_DeleteIdempotent ==
  [][(Called /\ ret'.op \in {"DeleteJob", "StopJob"}) =>
       /\ (ret'.op = "DeleteJob" /\ ret'.err = nil) => ~Has(jobs', ret'.jobID)
       /\ ret'.again => ~Has(jobs, ret'.jobID)
       /\ ~Has(jobs, ret'.jobID) =>
            /\ ret'.err = ErrRecordNotFound /\ ret'.code = JobNotFound
            /\ calls' = <<>>
            /\ jobs' = jobs /\ runtimes' = runtimes /\ nextPk' = nextPk]_vars

\* a StopJob or DeleteJob that came after the deletion of the job found no
\* record
C12_Witness ==
  /\ ret.op \in {"DeleteJob", "StopJob"} /\ ret.again
  /\ ret.err = ErrRecordNotFound /\ ret.code = JobNotFound
  /\ calls = <<>> /\ ~Has(jobs, ret.jobID) /\ nextPk > 1

\* DeleteJob is called on a job whose status is Succeeded
C13_Case ==
  /\ Called /\ ret'.op = "DeleteJob"
  /\ \E r \in jobs : r.ID = ret'.jobID /\ r.Status = StatusJobSucceeded

\* the errors that reject a command on a finished job
StateConflictKinds == {"job cannot be stopped", "job cannot be deleted"}

\* C13 as stated: DeleteJob on a job whose status is Succeeded makes no
\* runtime service call and no repository delete, and the caller receives a
\* state-conflict error.
C13_Original ==
  [][C13_Case =>
       /\ calls' = <<>> /\ jobs' = jobs
       /\ ret'.err.kind \in StateConflictKinds]_vars

\* C13 amended: DeleteJob on a job whose status is Succeeded is carried out
\* as on any other job and returns no state-conflict error: unless the queue
\* lookup, the cluster lookup, the runtime handle or the job-info view fails,
\* the runtime service DeleteJob is called; when that succeeds the repository
\* delete is called; the caller receives no error exactly when both
\* succeeded, and the record is then gone.
C13_DeleteSucceededJob ==
  [][C13_Case =>
       /\ ret'.err.kind \notin StateConflictKinds
       /\ calls' = <<>> <=>
            \/ LookupFails(jobs, ret'.jobID)
            \/ ret'.err.kind \in {"delete queue failed", "NewJobInfo failed"}
       /\ calls' # <<>> =>
            /\ calls'[1].call = "runtime.DeleteJob"
            /\ calls'[1].ok <=> Len(calls') = 2
            /\ Len(calls') = 2 => calls'[2].call = "db.Delete"
       /\ ret'.err = nil <=> calls' = <<RuntimeDelete(TRUE), RepoDelete(TRUE)>>
       /\ ret'.err = nil => ~Has(jobs', ret'.jobID)
       /\ ret'.err # nil => jobs' = jobs]_vars

\* the runtime service deleted a job whose record says Succeeded, and the
\* repository delete that followed failed
C13_Witness ==
  /\ ret.op = "DeleteJob" /\ ret.err = Err("db", "delete", <<>>)
  /\ calls = <<RuntimeDelete(TRUE), RepoDelete(FALSE)>>
  /\ \E r \in jobs : r.ID = ret.jobID /\ r.Status = StatusJobSucceeded

\* the errors of the steps of a submission, by the step that returns them
TemplateErrors == {"yaml: invalid json"}
QueueErrors == {"queue not found by id"}
FlavourErrors == {"flavour not found"}

\* the results of CreateSingleJob for this request in the current state
Submissions(request) ==
  {CreateSingleJob(jobs, nextPk, request, genID, dbOK) :
     genID \in (IF request.ID = EmptyID THEN FreshIDs ELSE {EmptyID}),
     dbOK \in BOOLEAN}

\* C14 as stated: the checks come in the order queue lookup, priority
\* validation, flavour lookup, so a submission with an invalid priority never
\* gets as far as the flavour lookup: a request whose queue exists, whose
\* priority is invalid and whose flavour is unknown does not fail with the
\* flavour lookup error.
C14_Original ==
  (ret.op = "CreateSingleJob" /\ InvalidPriority(ret.arg.priority))
  => ret.err.kind \notin FlavourErrors

\* C14 amended: the checks come in the order queue lookup, flavour lookup,
\* structural validation, priority validation: a request (with a convertible
\* extension template) whose queue exists and whose priority is invalid fails
\* with the flavour lookup error when its flavour is unknown, and with
\* InvalidPriority exactly when its flavour is found and its configuration
\* passes the structural validation.
C14_CheckOrder ==
  /\ \A request \in AllRequests : \A r \in Submissions(request) :
       (/\ JSONToYAML(request.ExtensionTemplate).err = nil
        /\ GetQueueByID(request.QueueID).err = nil
        /\ InvalidPriority(request.Priority)) =>
         /\ r.id = EmptyID /\ r.calls = <<>> /\ r.jobs = jobs
         /\ GetFlavour(request.Flavour).err # nil =>
              r.err = GetFlavour(request.Flavour).err
         /\ GetFlavour(request.Flavour).err = nil =>
              /\ r.err.kind \in {"ValidationError", "InvalidJobPriority"}
              /\ r.err = InvalidJobPriorityError(request.Priority)
                   <=> request.Image # ""
  /\ (ret.op = "CreateSingleJob" /\ InvalidPriority(ret.arg.priority)) =>
       /\ ret.id = EmptyID /\ calls = <<>>
       /\ ret.err.kind \in TemplateErrors \cup QueueErrors \cup FlavourErrors
                             \cup {"ValidationError", "InvalidJobPriority"}
       /\ ret.err.kind = "InvalidJobPriority" =>
            ret.err = InvalidJobPriorityError(ret.arg.priority)

\* a submission with an invalid priority failed in the flavour lookup
C14_Witness ==
  /\ ret.op = "CreateSingleJob" /\ InvalidPriority(ret.arg.priority)
  /\ ret.err = Err("flavour not found", "flavor.none", <<>>)
  /\ ret.id = EmptyID /\ calls = <<>>

\* C15: a CreateSingleJob whose queue or whose flavour is not found returns
\* an error and no job ID, never calls the repository Create and leaves the
\* table as it was.
C15_LookupFailureCreatesNothing ==
  /\ \A request \in AllRequests : \A r \in Submissions(request) :
       (\/ GetQueueByID(request.QueueID).err # nil
        \/ GetFlavour(request.Flavour).err # nil) =>
         /\ r.err # nil /\ r.id = EmptyID
         /\ r.calls = <<>> /\ r.jobs = jobs
  /\ (ret.op = "CreateSingleJob"
      /\ ret.err.kind \in QueueErrors \cup FlavourErrors) =>
       /\ ret.id = EmptyID /\ calls = <<>>
       /\ \A r \in jobs : r.Config.Flavour \in Flavours
                           /\ GetQueueByID(r.QueueID).err = nil

\* a submission to a queue that does not exist, made after a job was stored
C15_Witness ==
  /\ ret.op = "CreateSingleJob"
  /\ ret.err = Err("queue not found by id", "q9", <<>>)
  /\ ret.id = EmptyID /\ calls = <<>> /\ jobs # {}

\* the flights of this cluster that ended with a handle, and with an error
Constructions(reg, c) ==
  {f \in DOMAIN reg.results :
     reg.results[f].cluster = c /\ reg.results[f].err = nil}
FailedConstructions(reg, c) ==
  {f \in DOMAIN reg.results :
     reg.results[f].cluster = c /\ reg.results[f].err # nil}

\* the callers that have returned from a call for this cluster
Returned(cs, c) == {p \in Callers : cs[p].pc = "done" /\ cs[p].cluster = c}

\* C16: for every cluster, at most one handle is ever constructed and at most
\* one construction is in progress; every caller that returned a handle
\* returned the handle the cache holds; when no construction of the cluster
\* failed, every caller that returned holds that one handle, whether it
\* constructed the handle, joined the construction or came later; and a call
\* that starts when the handle is cached returns it at once and constructs
\* nothing.
C16_SingleConstruction ==
  [][/\ \A c \in ClusterInputs :
          /\ Cardinality(Constructions(registry', c)) <= 1
          /\ Cardinality({p \in Callers : callers'[p].pc = "construct"
                                           /\ callers'[p].cluster = c}) <= 1
          /\ c \in DOMAIN registry'.handles <=> Constructions(registry', c) # {}
          /\ \A p \in Returned(callers', c) :
               IF callers'[p].err = nil
               THEN /\ c \in DOMAIN registry'.handles
                    /\ callers'[p].handle = registry'.handles[c]
                    /\ callers'[p].handle # NoHandle
               ELSE FailedConstructions(registry', c) # {}
          /\ (FailedConstructions(registry', c) = {} /\ Returned(callers', c) # {}) =>
               /\ Cardinality(Constructions(registry', c)) = 1
               /\ \A p, q \in Returned(callers', c) :
                    callers'[p].handle = callers'[q].handle
     /\ registry'.built = Cardinality(DOMAIN registry'.handles)
     /\ \A p \in Callers :
          (/\ Called /\ callers'[p] # callers[p]
           /\ callers'[p].cluster \in DOMAIN registry.handles) =>
            /\ callers'[p].pc = "done" /\ callers'[p].err = nil
            /\ callers'[p].handle = registry.handles[callers'[p].cluster]
            /\ registry' = registry]_vars

\* two callers that were in the same construction and a caller that came
\* when the handle was cached hold the same handle, and one handle was built
C16_Witness ==
  /\ "c9" \in DOMAIN registry.handles
  /\ \E p, q, l \in Callers :
    /\ p # q /\ q # l /\ p # l
    /\ \A x \in {p, q, l} : /\ callers[x].pc = "done" /\ callers[x].cluster = "c9"
                              /\ callers[x].handle = registry.handles["c9"]
    /\ callers[p].flight = callers[q].flight /\ callers[p].flight # NoFlight
    /\ callers[l].flight = NoFlight
    /\ registry.built = 1

\* the ID has the form job-<runID>-<anything>
HasRunPrefix(id, runID) ==
  LET prefix == <<"j", "o", "b", "-">> \o runID \o <<"-">>
  IN Len(id) >= Len(prefix) /\ SubSeq(id, 1, Len(prefix)) = prefix

\* C17: GetJobsByRunID(runID, "") returns exactly the stored jobs whose ID has
\* the form job-<runID>-<anything>; with a non-empty exact job ID it returns
\* at most the one record with that ID, and nothing when that ID does not
\* have the run prefix.
C17_RunPrefixQuery ==
  (ret.op = "GetJobsByRunID" /\ ret.err = nil) =>
    IF ret.jobID = EmptyID
    THEN ret.jobList = {r \in jobs : HasRunPrefix(r.ID, ret.runID)}
    ELSE /\ ret.jobList \subseteq {r \in jobs : r.ID = ret.jobID}
         /\ Cardinality(ret.jobList) <= 1
         /\ ~HasRunPrefix(ret.jobID, ret.runID) => ret.jobList = {}

\* C18: when update calls on the same job run concurrently, each as a read
\* of the record followed by a separate write, no write replaces a stored
\* terminal status by another status.
C18_TerminalStatusUnderInterleaving ==
  [][\A r \in jobs :
       IsImmutableJobStatus(r.Status) =>
         \A r2 \in jobs' : r2.Pk = r.Pk => r2.Status = r.Status]_vars

\* C19: an UpdateJob on a stored job whose repository write fails returns an
\* error, no UpdateJob returns an empty status together with no error, and an
\* UpdateJob on a job that is not stored returns the job-not-found error and
\* creates no record.
C19_UpdateJobReportsFailures ==
  [][(Called /\ ret'.op = "UpdateJob") =>
       /\ (Has(jobs, ret'.jobID) /\ calls' = <<Call("db.Save", FALSE)>>) =>
            ret'.err # nil
       /\ ~(ret'.status = "" /\ ret'.err = nil)
       /\ ~Has(jobs, ret'.jobID) =>
            (ret'.err = JobIDNotFoundError(ret'.jobID) /\ jobs' = jobs)]_vars

\* C20: ActivatedAt of a record is set exactly when the stored status of the
\* job has at some point been Running: a call leaves ActivatedAt set on a
\* record if and only if it was set before or the call leaves the status
\* Running, and a new record has it unset.
C20_ActivatedIffEverRunning ==
  [][\A r2 \in jobs' :
       r2.ActivatedAt.Valid <=>
         \/ r2.Status = StatusJobRunning
         \/ \E r \in jobs : r.Pk = r2.Pk /\ r.ActivatedAt.Valid]_vars

====
